---- MODULE Spec2Model ----
(***************************************************************************)
(* Model of scripts/fetch_github_healthcare_repos.py: the keyword          *)
(* classifier, the paginated collector with its insertion-ordered          *)
(* accumulator, and main's fetch / write / exit sequence.                  *)
(* Python str values that are searched or edited character by character    *)
(* (name, description, topics, classifier input) are sequences of          *)
(* one-character strings; identifiers and labels are plain strings.        *)
(***************************************************************************)
EXTENDS Integers, Sequences, FiniteSets, TLC

VARIABLES pc, args, qi, page, payload, pending, repos, rows, calls, files,
          exit_code, text, label

vars == <<pc, args, qi, page, payload, pending, repos, rows, calls, files,
          exit_code, text, label>>

collector_vars == <<pc, args, qi, page, payload, pending, repos, rows, calls,
                    files, exit_code>>

(* ---------------------------- bounds ----------------------------------- *)
NumQueries == 2
MaxTarget == 2
MaxPages == 2
MaxPerPage == 2
MaxItems == 3
MaxFragments == 2

(* ---------------------------- constants -------------------------------- *)
None == "<None>"

\* main has not returned yet
Running == -1

DEFAULT_QUERIES ==
  << "\"healthcare dataset\" in:name,description,readme",
     "\"medical dataset\" in:name,description,readme",
     "\"hospital dataset\" in:name,description,readme",
     "\"simrs\" in:name,description,readme",
     "\"obat\" \"dataset\" indonesia in:name,description,readme",
     "\"kardiovaskular\" dataset in:name,description,readme",
     "\"indonesia health\" dataset in:name,description,readme",
     "\"rekam medis\" dataset in:name,description,readme" >>

queries == SubSeq(DEFAULT_QUERIES, 1, NumQueries)

Categories == {"SIMRS", "Obat", "Kardiovaskular", "General Healthcare"}

SimrsKeywords ==
  << <<"s", "i", "m", "r", "s">>, <<"h", "o", "s", "p", "i", "t", "a", "l", " ", "i", "n", "f", "o", "r", "m", "a", "t", "i", "o", "n", " ", "s", "y", "s", "t", "e", "m">>, <<"r", "e", "k", "a", "m", " ", "m", "e", "d", "i", "s">>, <<" ", "h", "i", "s", " ">> >>

ObatKeywords ==
  << <<"o", "b", "a", "t">>, <<"d", "r", "u", "g">>, <<"p", "h", "a", "r", "m", "a", "c", "e", "u", "t", "i", "c", "a", "l">>, <<"f", "a", "r", "m", "a", "s", "i">>, <<"m", "e", "d", "i", "c", "i", "n", "e">> >>

KardioKeywords ==
  << <<"k", "a", "r", "d", "i">>, <<"c", "a", "r", "d", "i", "o">>, <<"h", "e", "a", "r", "t">>, <<"e", "c", "g">>, <<"e", "k", "g">> >>

(* ---------------------------- str helpers ------------------------------ *)
UpperChars == <<"A", "B", "C", "D", "E", "F", "G", "H", "I", "J", "K", "L", "M", "N", "O", "P", "Q", "R", "S", "T", "U", "V", "W", "X", "Y", "Z">>
LowerChars == <<"a", "b", "c", "d", "e", "f", "g", "h", "i", "j", "k", "l", "m", "n", "o", "p", "q", "r", "s", "t", "u", "v", "w", "x", "y", "z">>

LowerChar(c) ==
  IF \E i \in 1..Len(UpperChars) : UpperChars[i] = c
  THEN LowerChars[CHOOSE i \in 1..Len(UpperChars) : UpperChars[i] = c]
  ELSE c

\* str.lower()
lower(s) == [i \in 1..Len(s) |-> LowerChar(s[i])]

\* k in t  (substring test of two str values)
Contains(t, k) ==
  \E i \in 0..(Len(t) - Len(k)) : SubSeq(t, i + 1, i + Len(k)) = k

\* any(k in t for k in keywords)
AnyIn(t, keywords) == \E j \in 1..Len(keywords) : Contains(t, keywords[j])

\* a classifier that tests the Obat group before the SIMRS group
classify_category_reordered(s) ==
  LET t == lower(s) IN
  IF AnyIn(t, ObatKeywords) THEN "Obat"
  ELSE IF AnyIn(t, SimrsKeywords) THEN "SIMRS"
  ELSE IF AnyIn(t, KardioKeywords) THEN "Kardiovaskular"
  ELSE "General Healthcare"

classify_category(s) ==
  LET t == lower(s) IN
  IF AnyIn(t, SimrsKeywords) THEN "SIMRS"
  ELSE IF AnyIn(t, ObatKeywords) THEN "Obat"
  ELSE IF AnyIn(t, KardioKeywords) THEN "Kardiovaskular"
  ELSE "General Healthcare"

IsSpace(c) == c \in {" ", "\n", "\t", "\r"}

\* str.replace("\n", " ")
ReplaceNewline(s) == [i \in 1..Len(s) |-> IF s[i] = "\n" THEN " " ELSE s[i]]

RECURSIVE LStrip(_)
LStrip(s) == IF s # <<>> /\ IsSpace(Head(s)) THEN LStrip(Tail(s)) ELSE s

RECURSIVE RStrip(_)
RStrip(s) ==
  IF s # <<>> /\ IsSpace(s[Len(s)]) THEN RStrip(SubSeq(s, 1, Len(s) - 1)) ELSE s

\* str.strip()
Strip(s) == RStrip(LStrip(s))

\* ",".join(topics)
RECURSIVE Join(_)
Join(topics) ==
  IF topics = <<>> THEN <<>>
  ELSE IF Len(topics) = 1 THEN topics[1]
  ELSE topics[1] \o <<",">> \o Join(Tail(topics))

\* dict.get(key, default)
Get(d, key, default) == IF key \in DOMAIN d THEN d[key] ELSE default

(* ---------------------------- remote items ----------------------------- *)
\* Raw repository objects the search endpoint may return.
ItemPool ==
  { [name |-> <<"r", "e", "p", "o">>, full_name |-> "org/repo", html_url |-> "https://github.com/org/repo",
     description |-> <<"S", "I", "M", "R", "S", "\n", "o", "b", "a", "t", " ">>, language |-> "Python", stargazers_count |-> 2,
     forks_count |-> 1],
    [name |-> <<"e", "c", "g">>, full_name |-> "org/ecg", html_url |-> "https://github.com/org/ecg",
     stargazers_count |-> 3, topics |-> << <<"h", "e", "a", "r", "t">>, <<"e", "k", "g">> >>],
    [name |-> <<"d", "r", "u", "g">>, description |-> <<"d", "r", "u", "g">>],
    [name |-> <<"a", "n", "o", "n">>, full_name |-> ""] }

\* Sequences of at most n raw items.
Pages(n) == UNION { [1..k -> ItemPool] : k \in 0..n }

(* ---------------------------- collector -------------------------------- *)
\* not full_name, for a value that mishandles the empty string
NotFullNameNoneOnly(full_name) == full_name = None

\* not full_name
NotFullName(full_name) == full_name = None \/ full_name = ""

\* (item.get("description") or "").replace("\n", " ").strip()
Description(item) == Strip(ReplaceNewline(Get(item, "description", <<>>)))

\* ",".join(item.get("topics") or [])
TopicsText(item) == Join(Get(item, "topics", <<>>))

ClassifyText(item) ==
  Get(item, "name", <<>>) \o << " " >> \o Description(item) \o << " " >> \o TopicsText(item)

\* the dict literal of lines 88-102
BuildRecord(query, item) ==
  [ source_query |-> query,
    name         |-> Get(item, "name", <<>>),
    full_name    |-> item.full_name,
    url          |-> Get(item, "html_url", ""),
    category     |-> classify_category(ClassifyText(item)),
    description  |-> Description(item),
    language     |-> Get(item, "language", ""),
    stars        |-> Get(item, "stargazers_count", 0),
    forks        |-> Get(item, "forks_count", 0),
    open_issues  |-> Get(item, "open_issues_count", 0),
    created_at   |-> Get(item, "created_at", ""),
    updated_at   |-> Get(item, "updated_at", ""),
    topics       |-> TopicsText(item) ]

\* the records of lines 83-102, tabulated per (query, raw item)
Records == [q \in {queries[i] : i \in 1..Len(queries)}, item \in {it \in ItemPool : "full_name" \in DOMAIN it} |->
              BuildRecord(q, item)]

Keys(d) == [i \in 1..Len(d) |-> d[i].k]
Values(d) == [i \in 1..Len(d) |-> d[i].v]
HasKey(d, key) == \E i \in 1..Len(d) : d[i].k = key

\* an ordered mapping whose assignment moves an existing key to the end
SetItemMoveToEnd(d, key, value) ==
  SelectSeq(d, LAMBDA e : e.k # key) \o << [k |-> key, v |-> value] >>

\* OrderedDict.__setitem__: an existing key keeps its position, its value is replaced
SetItem(d, key, value) ==
  IF HasKey(d, key)
  THEN [i \in 1..Len(d) |-> IF d[i].k = key THEN [k |-> key, v |-> value] ELSE d[i]]
  ELSE Append(d, [k |-> key, v |-> value])

\* a threshold test that needs one record more than the target
TargetReachedStrict(n, target) == n > target

\* len(repos) >= target
TargetReached(n, target) == n >= target

\* a page range that runs one page past max_pages
HasNextPageInclusive(p, max_pages) == p <= max_pages

\* page + 1 in range(1, max_pages + 1)
HasNextPage(p, max_pages) == p < max_pages

\* an empty-page test that never fires
NotItemsNever(items) == FALSE

\* not items
NotItems(items) == items = <<>>

SearchCalls == SelectSeq(calls, LAMBDA e : e.op = "github_search")

RECURSIVE Served(_)
Served(cs) == IF cs = <<>> THEN 0 ELSE Len(Get(Head(cs), "items", <<>>)) + Served(Tail(cs))

SearchEvent(raised, items) ==
  [op |-> "github_search", query |-> queries[qi], qi |-> qi, page |-> page,
   per_page |-> args.per_page, raised |-> raised, items |-> items]

SleepEvent == [op |-> "sleep"]

Init ==
  /\ pc = "main"
  /\ args \in [target : 0..MaxTarget, max_pages : 0..MaxPages, per_page : 1..MaxPerPage]
  /\ qi = 0
  /\ page = 0
  /\ payload = [items |-> <<>>]
  /\ pending = <<>>
  /\ repos = <<>>
  /\ rows = <<>>
  /\ calls = <<>>
  /\ files = <<>>
  /\ exit_code = Running
  /\ text = <<>>
  /\ label = None

\* main calls fetch_repositories, which enters its two loops
CallFetch ==
  /\ pc = "main"
  /\ repos' = <<>>
  /\ IF Len(queries) >= 1 /\ 1 <= args.max_pages
     THEN /\ pc' = "request"
          /\ qi' = 1
          /\ page' = 1
          /\ rows' = rows
     ELSE /\ pc' = "fetched"
          /\ rows' = <<>>
          /\ UNCHANGED <<qi, page>>
  /\ UNCHANGED <<args, payload, pending, calls, files, exit_code, text, label>>

\* github_search raises; the exception leaves fetch_repositories and main returns 1
MainExceptWrites ==
  /\ pc' = "fetched"
  /\ rows' = Values(repos)
  /\ exit_code' = exit_code

MainExcept ==
  /\ pc' = "exit"
  /\ rows' = rows
  /\ exit_code' = 1

SearchRaises ==
  /\ pc = "request"
  /\ calls' = Append(calls, SearchEvent(TRUE, <<>>))
  /\ MainExcept
  /\ UNCHANGED <<args, qi, page, payload, pending, repos, files, text, label>>

\* github_search returns a payload; an empty page breaks to the next query
Search(p) ==
  /\ pc = "request"
  /\ payload' = p
  /\ LET items == Get(p, "items", <<>>) IN
     /\ calls' = Append(calls, SearchEvent(FALSE, items))
     /\ IF NotItems(items)
        THEN /\ pending' = <<>>
             /\ IF qi < Len(queries)
                THEN /\ qi' = qi + 1
                     /\ page' = 1
                     /\ pc' = "request"
                     /\ rows' = rows
                ELSE /\ pc' = "fetched"
                     /\ rows' = Values(repos)
                     /\ UNCHANGED <<qi, page>>
        ELSE /\ pending' = items
             /\ pc' = "items"
             /\ UNCHANGED <<qi, page, rows>>
  /\ UNCHANGED <<args, repos, files, exit_code, text, label>>

\* one iteration of "for item in items"
ProcessItem ==
  /\ pc = "items"
  /\ pending # <<>>
  /\ LET item == Head(pending)
         full_name == Get(item, "full_name", None) IN
     repos' = IF NotFullName(full_name)
              THEN repos
              ELSE SetItem(repos, full_name, Records[queries[qi], item])
  /\ pending' = Tail(pending)
  /\ UNCHANGED <<pc, args, qi, page, payload, rows, calls, files, exit_code, text, label>>

\* lines 104-106: after the item loop, return when the target is reached
PageEnd ==
  /\ pc = "items"
  /\ pending = <<>>
  /\ IF TargetReached(Len(repos), args.target)
     THEN /\ pc' = "fetched"
          /\ rows' = Values(repos)
     ELSE /\ pc' = "sleep"
          /\ rows' = rows
  /\ UNCHANGED <<args, qi, page, payload, pending, repos, calls, files, exit_code, text, label>>

\* line 107, then the next iteration of the page loop or of the query loop
Sleep ==
  /\ pc = "sleep"
  /\ calls' = Append(calls, SleepEvent)
  /\ IF HasNextPage(page, args.max_pages)
     THEN /\ page' = page + 1
          /\ pc' = "request"
          /\ UNCHANGED <<qi, rows>>
     ELSE IF qi < Len(queries)
     THEN /\ qi' = qi + 1
          /\ page' = 1
          /\ pc' = "request"
          /\ rows' = rows
     ELSE /\ pc' = "fetched"
          /\ rows' = Values(repos)
          /\ UNCHANGED <<qi, page>>
  /\ UNCHANGED <<args, payload, pending, repos, files, exit_code, text, label>>

CsvFieldnames ==
  << "source_query", "name", "full_name", "url", "category", "description",
     "language", "stars", "forks", "open_issues", "created_at", "updated_at", "topics" >>

CsvContent(rs) ==
  IF rs = <<>> THEN [header |-> <<>>, body |-> <<>>]
  ELSE [header |-> CsvFieldnames, body |-> rs]

\* row["language"] or "Unknown"
LanguageOf(r) == IF r.language = "" THEN "Unknown" ELSE r.language

\* Counter(...) over the rows
SummaryContent(rs, target) ==
  [ target |-> target,
    total |-> Len(rs),
    by_category |-> [c \in {rs[i].category : i \in 1..Len(rs)} |->
                       Cardinality({i \in 1..Len(rs) : rs[i].category = c})],
    by_language |-> [l \in {LanguageOf(rs[i]) : i \in 1..Len(rs)} |->
                       Cardinality({i \in 1..Len(rs) : LanguageOf(rs[i]) = l})] ]

\* write_csv(rows, args.csv_output)
WriteCsv ==
  /\ pc = "fetched"
  /\ files' = Append(files, [path |-> "csv_output", content |-> CsvContent(rows)])
  /\ pc' = "csv_written"
  /\ UNCHANGED <<args, qi, page, payload, pending, repos, rows, calls, exit_code, text, label>>

\* write_summary(rows, args.summary_output, args.target); return 0
WriteSummary ==
  /\ pc = "csv_written"
  /\ files' = Append(files, [path |-> "summary_output",
                             content |-> SummaryContent(rows, args.target)])
  /\ pc' = "exit"
  /\ exit_code' = 0
  /\ UNCHANGED <<args, qi, page, payload, pending, repos, rows, calls, text, label>>

\* what the endpoint may answer: a body without items, or a page of at most per_page items
Payloads ==
  LET room == MaxItems - Served(calls)
      n == IF args.per_page <= room THEN args.per_page ELSE room IN
  {[total_count |-> 0]} \cup {[items |-> its] : its \in Pages(n)}

\* github_search returns some payload the endpoint can produce
SearchReturns == \E p \in Payloads : Search(p)

Next ==
  \/ CallFetch
  \/ SearchRaises
  \/ SearchReturns
  \/ ProcessItem
  \/ PageEnd
  \/ Sleep
  \/ WriteCsv
  \/ WriteSummary

Spec == Init /\ [][Next]_vars

FairSpec == Spec /\ WF_vars(Next)

(* ---------------------------- classifier runs -------------------------- *)
\* Pieces of text from which classifier inputs are assembled.
Fragments ==
  { <<"s", "i", "m", "r", "s">>, <<"S", "I", "M", "R", "S">>, <<"H", "o", "s", "p", "i", "t", "a", "l", " ", "I", "n", "f", "o", "r", "m", "a", "t", "i", "o", "n", " ", "S", "y", "s", "t", "e", "m">>, <<"R", "e", "k", "a", "m", " ", "M", "e", "d", "i", "s">>,
    <<" ", "h", "i", "s", " ">>, <<"h", "i", "s">>, <<"h", "i", "s", "t", "o", "r", "y">>, <<"O", "b", "a", "t">>, <<"d", "r", "u", "g">>, <<"P", "H", "A", "R", "M", "A", "C", "E", "U", "T", "I", "C", "A", "L">>,
    <<"f", "a", "r", "m", "a", "s", "i">>, <<"M", "e", "d", "i", "c", "i", "n", "e">>, <<"K", "a", "r", "d", "i">>, <<"c", "a", "r", "d", "i", "o">>, <<"H", "E", "A", "R", "T">>, <<"e", "c", "g">>,
    <<"E", "K", "G">>, <<" ">>, <<"x">>, <<"n", "a", "t", "i", "o", "n", "a", "l">>, <<"p", "r", "o", "g", "r", "a", "m">> }

RECURSIVE Texts(_)
Texts(n) ==
  IF n = 0 THEN { <<>> }
  ELSE Texts(n - 1) \cup { f \o s : f \in Fragments, s \in Texts(n - 1) }

InitClassify ==
  /\ pc = "classify"
  /\ args = [target |-> 0, max_pages |-> 0, per_page |-> 1]
  /\ qi = 0
  /\ page = 0
  /\ payload = [items |-> <<>>]
  /\ pending = <<>>
  /\ repos = <<>>
  /\ rows = <<>>
  /\ calls = <<>>
  /\ files = <<>>
  /\ exit_code = Running
  /\ text \in Texts(MaxFragments)
  /\ label = None

\* one call classify_category(text)
Classify ==
  /\ pc = "classify"
  /\ label = None
  /\ label' = classify_category(text)
  /\ UNCHANGED <<text, collector_vars>>

NextClassify == Classify

SpecClassify == InitClassify /\ [][NextClassify]_vars

(* ======================================================================= *)
(* Properties                                                              *)
(* ======================================================================= *)
Max(a, b) == IF a >= b THEN a ELSE b

Last(s) == s[Len(s)]

Returned == pc \in {"fetched", "csv_written"} \/ (pc = "exit" /\ exit_code = 0)

\* every raw item handed to the collector so far, with the query and page it came under
RECURSIVE Flatten(_)
Flatten(cs) ==
  IF cs = <<>> THEN <<>>
  ELSE [i \in 1..Len(Head(cs).items) |->
          [query |-> Head(cs).query, item |-> Head(cs).items[i]]] \o Flatten(Tail(cs))

\* the items the item loop has already gone through
Traversed ==
  LET all == Flatten(SearchCalls) IN SubSeq(all, 1, Len(all) - Len(pending))

HasIdentifier(item) ==
  "full_name" \in DOMAIN item /\ item.full_name # "" /\ item.full_name # None

IdentifiedItems(s) == SelectSeq(s, LAMBDA e : HasIdentifier(e.item))

RECURSIVE FirstSeenOrder(_, _)
FirstSeenOrder(s, acc) ==
  IF s = <<>> THEN acc
  ELSE IF \E i \in 1..Len(acc) : acc[i] = Head(s).item.full_name
       THEN FirstSeenOrder(Tail(s), acc)
       ELSE FirstSeenOrder(Tail(s), Append(acc, Head(s).item.full_name))

FirstIndex(s, full_name) ==
  CHOOSE i \in 1..Len(s) :
    /\ s[i].item.full_name = full_name
    /\ \A j \in 1..(i - 1) : s[j].item.full_name # full_name

\* number of distinct identifiers among the items of the first j requests
UniqueAfter(j) ==
  Len(FirstSeenOrder(IdentifiedItems(Flatten(SubSeq(SearchCalls, 1, j))), <<>>))

OnlyIdentifierless(items) ==
  items # <<>> /\ \A i \in 1..Len(items) : ~HasIdentifier(items[i])

(* C1: Deduplication is first-seen-wins: the accumulator holds exactly one   *)
(* record per full_name, and every field of that record equals the values    *)
(* built from the FIRST item seen with that full_name; later duplicates      *)
(* never change an existing record.                                          *)
C1_FirstSeenWins ==
  LET seen == IdentifiedItems(Traversed) IN
  /\ \A i, j \in 1..Len(repos) : repos[i].k = repos[j].k => i = j
  /\ \A i \in 1..Len(repos) :
       /\ \E n \in 1..Len(seen) : seen[n].item.full_name = repos[i].k
       /\ LET first == seen[FirstIndex(seen, repos[i].k)] IN
          repos[i].v = BuildRecord(first.query, first.item)

(* C2: Early termination: once a page has been processed and the number of   *)
(* unique records is >= target, fetch_repositories returns the accumulated   *)
(* records and no further github_search request is issued.                   *)
C2_EarlyTermination ==
  /\ \A j \in 1..(Len(SearchCalls) - 1) :
       SearchCalls[j].items # <<>> => UniqueAfter(j) < args.target
  /\ (pc \in {"request", "sleep"} /\ SearchCalls # <<>> /\ Last(SearchCalls).items # <<>>)
       => Len(repos) < args.target
  /\ (Returned /\ Len(rows) >= args.target /\ SearchCalls # <<>>
        /\ Last(SearchCalls).items # <<>>)
       => /\ Last(calls).op = "github_search"
          /\ rows = Values(repos)
          /\ Len(rows) = UniqueAfter(Len(SearchCalls))

C2_Witness ==
  /\ pc = "fetched"
  /\ args.target >= 1
  /\ Len(rows) >= args.target
  /\ Last(SearchCalls).qi = 1
  /\ Last(SearchCalls).page = 1
  /\ args.max_pages >= 2

C4_FirstSeenOrder ==
  /\ Keys(repos) = FirstSeenOrder(IdentifiedItems(Traversed), <<>>)
  /\ Returned => [i \in 1..Len(rows) |-> rows[i].full_name] = Keys(repos)

C4_Witness ==
  LET seen == IdentifiedItems(Traversed) IN
  /\ Returned
  /\ Len(rows) = 2
  /\ Len(seen) = 3
  /\ seen[3].item.full_name = rows[1].full_name

(* C5: Fatal fetch error outcome: if a github_search call raises, it is the  *)
(* last request, main returns 1 and no output file is written, even when     *)
(* records had been collected; if none raises, main ends with both files     *)
(* written (csv, then summary) and exit code 0, also under target.           *)
C5_FetchErrorOutcome ==
  LET raised == \E i \in 1..Len(calls) : calls[i].op = "github_search" /\ calls[i].raised IN
  /\ raised => /\ Last(calls).op = "github_search" /\ Last(calls).raised
               /\ pc = "exit"
               /\ exit_code = 1
               /\ files = <<>>
  /\ exit_code = 1 => raised
  /\ (pc = "exit" /\ ~raised) =>
        /\ exit_code = 0
        /\ [i \in 1..Len(files) |-> files[i].path] = <<"csv_output", "summary_output">>
  /\ pc # "exit" => exit_code = Running

C5_Witness ==
  /\ pc = "exit"
  /\ exit_code = 1
  /\ Len(repos) >= 1
  /\ files = <<>>

C5_WitnessUnderTarget ==
  /\ pc = "exit"
  /\ exit_code = 0
  /\ Len(rows) < args.target
  /\ Len(files) = 2

IsPrefix(k, s) == Len(k) <= Len(s) /\ \A i \in 1..Len(k) : s[i] = k[i]

RECURSIVE Occurs(_, _)
Occurs(k, s) ==
  IF Len(s) < Len(k) THEN FALSE
  ELSE IsPrefix(k, s) \/ Occurs(k, Tail(s))

Ascii(c) ==
  CASE c = "A" -> "a" [] c = "B" -> "b" [] c = "C" -> "c" [] c = "D" -> "d"
    [] c = "E" -> "e" [] c = "F" -> "f" [] c = "G" -> "g" [] c = "H" -> "h"
    [] c = "I" -> "i" [] c = "J" -> "j" [] c = "K" -> "k" [] c = "L" -> "l"
    [] c = "M" -> "m" [] c = "N" -> "n" [] c = "O" -> "o" [] c = "P" -> "p"
    [] c = "Q" -> "q" [] c = "R" -> "r" [] c = "S" -> "s" [] c = "T" -> "t"
    [] c = "U" -> "u" [] c = "V" -> "v" [] c = "W" -> "w" [] c = "X" -> "x"
    [] c = "Y" -> "y" [] c = "Z" -> "z" [] OTHER -> c

Group1 == { <<"s", "i", "m", "r", "s">>, <<"h", "o", "s", "p", "i", "t", "a", "l", " ", "i", "n", "f", "o", "r", "m", "a", "t", "i", "o", "n", " ", "s", "y", "s", "t", "e", "m">>, <<"r", "e", "k", "a", "m", " ", "m", "e", "d", "i", "s">>, <<" ", "h", "i", "s", " ">> }
Group2 == { <<"o", "b", "a", "t">>, <<"d", "r", "u", "g">>, <<"p", "h", "a", "r", "m", "a", "c", "e", "u", "t", "i", "c", "a", "l">>, <<"f", "a", "r", "m", "a", "s", "i">>, <<"m", "e", "d", "i", "c", "i", "n", "e">> }
Group3 == { <<"k", "a", "r", "d", "i">>, <<"c", "a", "r", "d", "i", "o">>, <<"h", "e", "a", "r", "t">>, <<"e", "c", "g">>, <<"e", "k", "g">> }

InGroup(g, s) == \E k \in g : Occurs(k, [i \in 1..Len(s) |-> Ascii(s[i])])

(* C6: classify_category is total and prioritised: the result is one of the  *)
(* four labels; SIMRS whenever the lower-cased text contains a group-1       *)
(* keyword; Obat whenever it contains a group-2 keyword and no group-1       *)
(* keyword; Kardiovaskular whenever it contains a group-3 keyword and none   *)
(* of groups 1-2; General Healthcare only when no keyword occurs.            *)
C6_ClassifyTotalPrioritised ==
  label # None =>
    /\ label \in Categories
    /\ InGroup(Group1, text) => label = "SIMRS"
    /\ (~InGroup(Group1, text) /\ InGroup(Group2, text)) => label = "Obat"
    /\ (~InGroup(Group1, text) /\ ~InGroup(Group2, text) /\ InGroup(Group3, text))
         => label = "Kardiovaskular"
    /\ label = "General Healthcare" <=>
         (~InGroup(Group1, text) /\ ~InGroup(Group2, text) /\ ~InGroup(Group3, text))

C6_Witness ==
  /\ label = "SIMRS"
  /\ InGroup(Group2, text)
  /\ text # lower(text)

C7_RecordsWellFormed ==
  \A i \in 1..Len(repos) :
    /\ repos[i].k # "" /\ repos[i].k # None
    /\ repos[i].v.full_name = repos[i].k
    /\ repos[i].v.category \in Categories

C7_IdentifierlessSkipped ==
  (pc = "items" /\ pending # <<>> /\ pending' = Tail(pending)
     /\ ~HasIdentifier(Head(pending))) => repos' = repos

(* C7: Record well-formedness: at every point of collection every record in  *)
(* the accumulator has a non-empty full_name and a category among the four   *)
(* labels; an item whose full_name is missing or empty creates no record     *)
(* and leaves the accumulator unchanged.                                     *)
C7_WellFormedness == []C7_RecordsWellFormed /\ [][C7_IdentifierlessSkipped]_vars

C7_Witness ==
  /\ pc = "sleep"
  /\ Len(Last(SearchCalls).items) = 2
  /\ \E i \in 1..2 : "full_name" \notin DOMAIN Last(SearchCalls).items[i]
  /\ \E i \in 1..Len(Traversed) : "full_name" \in DOMAIN Traversed[i].item
                                   /\ Traversed[i].item.full_name = ""
  /\ Len(repos) = 1

(* C8: Pacing: a pause occurs between every two successive github_search     *)
(* requests of one run: no request directly follows the previous request.    *)
C8_PauseBetweenRequests ==
  \A i \in 1..(Len(calls) - 1) :
    ~(calls[i].op = "github_search" /\ calls[i + 1].op = "github_search")

C9_Trace ==
  LET reqs == SearchCalls IN
  /\ \A i \in 1..Len(reqs) : (~reqs[i].raised /\ reqs[i].items = <<>>) =>
        /\ \A j \in (i + 1)..Len(reqs) : reqs[j].qi # reqs[i].qi
        /\ i < Len(reqs) => (reqs[i + 1].qi = reqs[i].qi + 1 /\ reqs[i + 1].page = 1)
        /\ i = Len(reqs) =>
             IF reqs[i].qi < Len(queries)
             THEN pc = "request" /\ qi = reqs[i].qi + 1 /\ page = 1
             ELSE Returned
  /\ \A i \in 1..Len(reqs) :
       (OnlyIdentifierless(reqs[i].items) /\ reqs[i].page < args.max_pages
          /\ UniqueAfter(i) < args.target) =>
        /\ i < Len(reqs) => (reqs[i + 1].qi = reqs[i].qi /\ reqs[i + 1].page = reqs[i].page + 1)
        /\ i = Len(reqs) =>
             \/ pc \in {"items", "sleep"}
             \/ pc = "request" /\ qi = reqs[i].qi /\ page = reqs[i].page + 1

C9_Step ==
  (pc = "request" /\ Len(calls') = Len(calls) + 1 /\ ~Last(calls').raised
     /\ Last(calls').items = <<>>) => repos' = repos

(* C9: Empty-page exhaustion: after a page with zero items no further page   *)
(* of that query is requested, the next request is page 1 of the next query  *)
(* and the accumulator is unchanged; a non-empty page of identifier-less     *)
(* items only does not stop pagination of its query.                         *)
C9_EmptyPageExhaustion == []C9_Trace /\ [][C9_Step]_vars

C9_Witness ==
  LET reqs == SearchCalls IN
  /\ Len(reqs) = 3
  /\ ~reqs[1].raised /\ reqs[1].items = <<>> /\ reqs[1].qi = 1
  /\ Len(repos) = 0
  /\ OnlyIdentifierless(reqs[2].items) /\ reqs[2].qi = 2 /\ reqs[2].page = 1
  /\ reqs[3].qi = 2 /\ reqs[3].page = 2

C10_RequestSequence ==
  LET reqs == SearchCalls IN
  /\ \A i \in 1..Len(reqs) :
       /\ reqs[i].qi \in 1..Len(queries)
       /\ reqs[i].query = queries[reqs[i].qi]
       /\ reqs[i].page =
            1 + Cardinality({j \in 1..(i - 1) : reqs[j].qi = reqs[i].qi})
       /\ reqs[i].page <= args.max_pages
  /\ \A i, j \in 1..Len(reqs) : i < j => reqs[i].qi <= reqs[j].qi
  /\ Len(reqs) <= Len(queries) * args.max_pages
  /\ args.max_pages <= 0 => Len(reqs) = 0

C10_Terminated == pc \in {"fetched", "csv_written", "exit"}

(* C10: Bounded request sequence and termination: fetch_repositories always  *)
(* terminates; queries are visited in the given order; the pages requested   *)
(* for a query are 1, 2, ..., k without gap or repeat and k <= max_pages;    *)
(* the number of github_search calls is at most len(queries) * max_pages     *)
(* and is 0 when max_pages <= 0.                                             *)
C10_BoundedTermination == []C10_RequestSequence /\ <>C10_Terminated

C10_Witness ==
  /\ pc = "fetched"
  /\ args.max_pages >= 2
  /\ Len(SearchCalls) = Len(queries) * args.max_pages

====
